---- MODULE Spec2Model ----
(***************************************************************************)
(* Model of HoangChu_Ascenda_OA.py: the date helpers of class APIHandling  *)
(* (string parsing, month lengths, validity, "checkin + n days", expiry)   *)
(* and its offer filters, which replace or mutate self.offers in turn.     *)
(*                                                                         *)
(* A Python str is a sequence of one-character strings.  A Python list of  *)
(* offer dicts is a sequence of references into a heap, because the        *)
(* filters alias and mutate the dicts in place.                            *)
(***************************************************************************)
EXTENDS Integers, Sequences, FiniteSets, TLC

VARIABLES
    checkin_date,   \* self.checkin_date: the validated checkin date string
    offers,         \* self.offers: the working set, a list of offer references
    heap,           \* the offer dicts the references point to
    err,            \* the exception the last filter call raised, or "none"
    lastOp,         \* the last filter call and its arguments
    date_in,        \* the date string handed to the date helpers
    date_out        \* the helper called last, its argument and what it returned

vars == <<checkin_date, offers, heap, err, lastOp, date_in, date_out>>

-----------------------------------------------------------------------------
(* Bounds of the model. *)

MaxOffers == 2

MaxNames == 2

-----------------------------------------------------------------------------
(* Strings. *)

DigitChars == <<"0", "1", "2", "3", "4", "5", "6", "7", "8", "9">>

IsDigit(c) == \E i \in 1..10 : DigitChars[i] = c

DigitValue(c) == (CHOOSE i \in 1..10 : DigitChars[i] = c) - 1

\* str.split("-"): every "-" ends a field; empty fields are kept.
RECURSIVE SplitFrom(_, _, _)
SplitFrom(s, i, cur) ==
    IF i > Len(s) THEN <<cur>>
    ELSE IF s[i] = "-" THEN <<cur>> \o SplitFrom(s, i + 1, <<>>)
    ELSE SplitFrom(s, i + 1, Append(cur, s[i]))

Split(s) == SplitFrom(s, 1, <<>>)

\* int(field) accepts a non-empty run of decimal digits (leading zeros too).
IntOk(f) == f # <<>> /\ \A i \in 1..Len(f) : IsDigit(f[i])

RECURSIVE IntOf(_)
IntOf(f) ==
    IF f = <<>> THEN 0
    ELSE 10 * IntOf(SubSeq(f, 1, Len(f) - 1)) + DigitValue(f[Len(f)])

-----------------------------------------------------------------------------
(* Date helpers. *)

NoDate == <<0, 0, 0>>

\* The fields of _get_year_month_day_from_str: fields 0, 1, 2 are year, month,
\* day unless field 1 or field 2 is 4 characters long; the later test wins.
YearMonthDayOf(cur_dates) ==
    IF Len(cur_dates) < 3 THEN [err |-> "IndexError", date |-> NoDate]
    ELSE
        LET second == Len(cur_dates[2]) = 4
            third == Len(cur_dates[3]) = 4
            cur_year_str == IF third THEN cur_dates[3]
                            ELSE IF second THEN cur_dates[2] ELSE cur_dates[1]
            cur_month_str == IF third \/ second THEN cur_dates[1] ELSE cur_dates[2]
            cur_day_str == IF third THEN cur_dates[2] ELSE cur_dates[3]
        IN  IF IntOk(cur_year_str) /\ IntOk(cur_month_str) /\ IntOk(cur_day_str)
            THEN [err |-> "none",
                  date |-> <<IntOf(cur_year_str), IntOf(cur_month_str),
                             IntOf(cur_day_str)>>]
            ELSE [err |-> "ValueError", date |-> NoDate]

\* _get_year_month_day_from_str
GetYearMonthDayFromStr(cur_date_str) == YearMonthDayOf(Split(cur_date_str))

\* is_leap_year with the century rule of the Gregorian calendar.
IsLeapYearGregorian(year) ==
    year % 4 = 0 /\ (year % 100 # 0 \/ year % 400 = 0)

IsLeapYear(year) == year % 4 = 0

\* _get_no_days_in; both callers reach it with 1 <= month <= 12 only, so the
\* assert at its head never fails.
GetNoDaysIn(year, month) ==
    IF month = 2 THEN (IF IsLeapYear(year) THEN 29 ELSE 28)
    ELSE IF month \in {4, 6, 9, 11} THEN 30 ELSE 31

\* The month and day tests of _is_valid_date on what the parse returned.
IsValidYearMonthDay(parsed) ==
    IF parsed.err # "none" THEN parsed.err
    ELSE IF ~(1 <= parsed.date[2] /\ parsed.date[2] <= 12) THEN "False"
    ELSE IF ~(1 <= parsed.date[3]
              /\ parsed.date[3] <= GetNoDaysIn(parsed.date[1], parsed.date[2]))
    THEN "False"
    ELSE "True"

\* _is_valid_date: "True", "False", or the exception the parse raises.
IsValidDate(date_str) ==
    IF date_str = <<>> THEN "False"
    ELSE IF \E i \in 1..Len(date_str) :
                ~(IsDigit(date_str[i]) \/ date_str[i] = "-") THEN "False"
    ELSE IsValidYearMonthDay(GetYearMonthDayFromStr(date_str))

NoExtendedDaysLimit == 31

\* The arithmetic of _get_last_stay_date on the parsed date: at most one month
\* is rolled over.
AddExtendedDays(cur, no_extended_days, no_days_in_cur_month) ==
    IF cur[3] + no_extended_days > no_days_in_cur_month
    THEN <<IF cur[2] + 1 > 12 THEN cur[1] + 1 ELSE cur[1],
           IF cur[2] + 1 > 12 THEN 1 ELSE cur[2] + 1,
           cur[3] + no_extended_days - no_days_in_cur_month>>
    ELSE <<cur[1], cur[2], cur[3] + no_extended_days>>

\* _get_last_stay_date after its assert, which found the date `valid`.
LastStayDateOf(valid, cur, no_extended_days) ==
    IF valid # "True"
    THEN [err |-> IF valid = "False" THEN "AssertionError" ELSE valid,
          date |-> NoDate]
    ELSE IF no_extended_days > NoExtendedDaysLimit
    THEN [err |-> "none", date |-> <<-1, -1, -1>>]
    ELSE [err |-> "none",
          date |-> AddExtendedDays(cur, no_extended_days,
                                   GetNoDaysIn(cur[1], cur[2]))]

\* _get_last_stay_date
GetLastStayDate(date_str, no_extended_days) ==
    LastStayDateOf(IsValidDate(date_str), YearMonthDayOf(Split(date_str)).date,
                   no_extended_days)

-----------------------------------------------------------------------------
(* Categories. *)

LowerChars == <<"a", "b", "c", "d", "e", "f", "g", "h", "i", "j", "k", "l", "m",
                "n", "o", "p", "q", "r", "s", "t", "u", "v", "w", "x", "y", "z">>

UpperChars == <<"A", "B", "C", "D", "E", "F", "G", "H", "I", "J", "K", "L", "M",
                "N", "O", "P", "Q", "R", "S", "T", "U", "V", "W", "X", "Y", "Z">>

\* str.upper of one lowercase letter.
UpperOfLower ==
    [c \in {LowerChars[k] : k \in 1..26} |->
        UpperChars[CHOOSE k \in 1..26 : LowerChars[k] = c]]

\* str.upper: lowercase letters are replaced, every other character stays.
Upper(name) ==
    [i \in 1..Len(name) |->
        IF name[i] \in DOMAIN UpperOfLower THEN UpperOfLower[name[i]] ELSE name[i]]

\* class CATEGORY(Enum)
CATEGORY == {1, 2, 3, 4}

\* CATEGORY(category_id).name
CategoryEnumName(category_id) ==
    CASE category_id = 1 -> <<"R", "E", "S", "T", "A", "U", "R", "A", "N", "T">>
      [] category_id = 2 -> <<"R", "E", "T", "A", "I", "L">>
      [] category_id = 3 -> <<"H", "O", "T", "E", "L">>
      [] category_id = 4 -> <<"A", "C", "T", "I", "V", "I", "T", "Y">>

StandardizeCategoryNames(category_names) ==
    [i \in 1..Len(category_names) |-> Upper(category_names[i])]

Range(s) == {s[i] : i \in 1..Len(s)}

\* The elements of s in the order of their first occurrence (dict key order).
RECURSIVE FirstSeen(_, _)
FirstSeen(s, seen) ==
    IF s = <<>> THEN <<>>
    ELSE IF Head(s) \in seen THEN FirstSeen(Tail(s), seen)
    ELSE <<Head(s)>> \o FirstSeen(Tail(s), seen \cup {Head(s)})

\* _get_category_offers_map: category name -> the offers of that category, in
\* working-set order; keys in insertion order.
GetCategoryOffersMap(offs, h) ==
    IF \E i \in 1..Len(offs) : h[offs[i]].category \notin CATEGORY
    THEN [err |-> "AssertionError", keys |-> <<>>, lists |-> <<>>]
    ELSE
        LET names == [i \in 1..Len(offs) |-> CategoryEnumName(h[offs[i]].category)]
        IN  [err |-> "none",
             keys |-> FirstSeen(names, {}),
             lists |-> [name \in Range(names) |->
                          SelectSeq(offs, LAMBDA r :
                              CategoryEnumName(h[r].category) = name)]]

-----------------------------------------------------------------------------
(* Sorting. *)

\* list.sort(key=...): stable, ascending by key; keys[k] is the key of s[k].
StableSort(s, keys) ==
    LET n == Len(s)
        Rank(k) == 1 + Cardinality({j \in 1..n :
                        keys[j] < keys[k] \/ (keys[j] = keys[k] /\ j < k)})
    IN  [i \in 1..n |-> s[CHOOSE k \in 1..n : Rank(k) = i]]

-----------------------------------------------------------------------------
(* Merchants.  The 'merchants' value of an offer is a list of merchant dicts *)
(* (isList) or, once merchant_filter has run, one merchant dict (items[1]).  *)

\* len(offer['merchants']): the length of the list, or the number of keys of
\* the merchant dict.
MerchantsLen(ms) ==
    IF ms.isList THEN Len(ms.items) ELSE Cardinality(DOMAIN ms.items[1])

\* merchant_filter without the sort.
SortMerchantsUnsorted(items) == items

\* offer['merchants'].sort(key=lambda x:x['distance'])
SortMerchants(items) ==
    StableSort(items, [k \in 1..Len(items) |-> items[k].distance])

\* The body of merchant_filter's loop for one offer.
MerchantFilterOne(offer) ==
    LET ms == offer.merchants IN
    IF MerchantsLen(ms) > 1 /\ ~ms.isList
    THEN [err |-> "AttributeError", offer |-> offer]
    ELSE IF ~ms.isList THEN [err |-> "KeyError", offer |-> offer]
    ELSE IF ms.items = <<>> THEN [err |-> "IndexError", offer |-> offer]
    ELSE
        LET sorted == IF Len(ms.items) > 1 THEN SortMerchants(ms.items)
                      ELSE ms.items
        IN  [err |-> "none",
             offer |-> [offer EXCEPT !.merchants =
                           [isList |-> FALSE, items |-> <<sorted[1]>>]]]

\* merchant_filter's loop from offer i on: the dicts are rewritten in place, so
\* what was done before an exception stays done.
RECURSIVE MerchantFilterFrom(_, _, _)
MerchantFilterFrom(i, offs, h) ==
    IF i > Len(offs) THEN [err |-> "none", heap |-> h]
    ELSE
        LET one == MerchantFilterOne(h[offs[i]]) IN
        IF one.err # "none" THEN [err |-> one.err, heap |-> h]
        ELSE MerchantFilterFrom(i + 1, offs, [h EXCEPT ![offs[i]] = one.offer])

\* x['merchants'][0]['distance'] where merchants is still a list.
MerchantsDistanceOfFirst(ms) == [err |-> "none", val |-> ms.items[1].distance]

\* x['merchants']['distance']
MerchantsDistance(ms) ==
    IF ms.isList THEN [err |-> "TypeError", val |-> 0]
    ELSE [err |-> "none", val |-> ms.items[1].distance]

-----------------------------------------------------------------------------
(* Expiry. *)

\* _is_expired with the month test left out when the years are equal and the
\* staying month is not the later one.
IsAfterExpiryNoMonth(cur, expiry) ==
    IF cur[1] > expiry[1] THEN "True"
    ELSE IF cur[1] = expiry[1]
    THEN IF cur[2] > expiry[2] THEN "True"
         ELSE IF cur[3] > expiry[3] THEN "True" ELSE "False"
    ELSE "False"

\* The comparison of _is_expired: "True", "False", or "None" where the code
\* falls off the end of its if/elif chain (same year, earlier month).
IsAfterExpiry(cur, expiry) ==
    IF cur[1] > expiry[1] THEN "True"
    ELSE IF cur[1] = expiry[1]
    THEN IF cur[2] > expiry[2] THEN "True"
         ELSE IF cur[2] = expiry[2]
         THEN IF cur[3] > expiry[3] THEN "True" ELSE "False"
         ELSE "None"
    ELSE "False"

\* _is_expired on the last stay date and the parsed valid_to.
ExpiredOf(staying, expiry) ==
    IF staying.err # "none" THEN [err |-> staying.err, val |-> "None"]
    ELSE IF expiry.err # "none" THEN [err |-> expiry.err, val |-> "None"]
    ELSE [err |-> "none", val |-> IsAfterExpiry(staying.date, expiry.date)]

\* _is_expired
IsExpired(valid_to_date_str, no_extended_days, checkin) ==
    ExpiredOf(GetLastStayDate(checkin, no_extended_days),
              GetYearMonthDayFromStr(valid_to_date_str))

\* Python truth of what _is_expired returns.
Truthy(val) == val = "True"

-----------------------------------------------------------------------------
(* What each filter computes from the working set. *)

\* categoryName_offers_map.get(category_name, [])
LookupCategoryOrEmpty(map, category_name) ==
    IF category_name \in Range(map.keys)
    THEN [err |-> "none", val |-> map.lists[category_name]]
    ELSE [err |-> "none", val |-> <<>>]

\* categoryName_offers_map[category_name]
LookupCategory(map, category_name) ==
    IF category_name \in Range(map.keys)
    THEN [err |-> "none", val |-> map.lists[category_name]]
    ELSE [err |-> "KeyError", val |-> <<>>]

\* The loop of category_filter from name i on.
RECURSIVE ExtendAnswers(_, _, _, _)
ExtendAnswers(i, category_names_set, map, answers) ==
    IF i > Len(category_names_set) THEN [err |-> "none", answers |-> answers]
    ELSE
        LET found == LookupCategory(map, category_names_set[i]) IN
        IF found.err # "none" THEN [err |-> found.err, answers |-> answers]
        ELSE ExtendAnswers(i + 1, category_names_set, map, answers \o found.val)

CategoryFilterResult(desired_categories, offs, h) ==
    LET category_names_set == StandardizeCategoryNames(desired_categories)
        map == GetCategoryOffersMap(offs, h)
    IN  IF map.err # "none" THEN [err |-> map.err, answers |-> <<>>]
        ELSE ExtendAnswers(1, category_names_set, map, <<>>)

\* What one pass of date_filter's loop does with the answers, given what
\* _is_expired returned for the offer.
AppendUnlessExpired(expired, offer, answers) ==
    IF expired.err # "none" THEN [err |-> expired.err, answers |-> answers]
    ELSE IF ~Truthy(expired.val)
    THEN [err |-> "none", answers |-> Append(answers, offer)]
    ELSE [err |-> "none", answers |-> answers]

\* The loop of date_filter from offer i on; the first exception ends the call.
RECURSIVE DateFilterLoop(_, _, _, _, _, _)
DateFilterLoop(i, no_extended_days, offs, h, checkin, answers) ==
    IF i > Len(offs) THEN [err |-> "none", answers |-> answers]
    ELSE
        LET one == AppendUnlessExpired(
                       IsExpired(h[offs[i]].valid_to, no_extended_days, checkin),
                       offs[i], answers)
        IN  IF one.err # "none" THEN one
            ELSE DateFilterLoop(i + 1, no_extended_days, offs, h, checkin,
                                one.answers)

DateFilterResult(no_extended_days, offs, h, checkin) ==
    DateFilterLoop(1, no_extended_days, offs, h, checkin, <<>>)

\* offers[0] without the sort.
ClosestOfGroupUnsorted(group, h) == group[1]

\* offers.sort(key = lambda x: x['merchants']['distance']); offers[0]
ClosestOfGroup(group, h) ==
    StableSort(group,
        [k \in 1..Len(group) |-> MerchantsDistance(h[group[k]].merchants).val])[1]

ClosestMerchantPerCategoryResult(offs, h) ==
    LET map == GetCategoryOffersMap(offs, h) IN
    IF map.err # "none" THEN [err |-> map.err, answers |-> <<>>]
    ELSE IF \E i \in 1..Len(offs) : MerchantsDistance(h[offs[i]].merchants).err # "none"
    THEN [err |-> "TypeError", answers |-> <<>>]
    ELSE [err |-> "none",
          answers |-> [k \in 1..Len(map.keys) |->
                          ClosestOfGroup(map.lists[map.keys[k]], h)]]

\* assert 'distance' in cur_merchant: a merchant dict has the key, a list of
\* merchant dicts holds no such element.
HasDistanceKey(ms) == ~ms.isList

None == 0

\* The loop of _get_closest_merchant_offer from offer i on; closest = None
\* stands for min_merchant_dist = math.inf.
RECURSIVE ScanClosest(_, _, _, _, _)
ScanClosest(i, seen_offers_set, offs, h, closest) ==
    IF i > Len(offs) THEN [err |-> "none", offer |-> closest]
    ELSE IF h[offs[i]].id \in seen_offers_set
    THEN ScanClosest(i + 1, seen_offers_set, offs, h, closest)
    ELSE IF ~HasDistanceKey(h[offs[i]].merchants)
    THEN [err |-> "AssertionError", offer |-> None]
    ELSE
        LET cur == MerchantsDistance(h[offs[i]].merchants) IN
        IF cur.err # "none" THEN [err |-> cur.err, offer |-> None]
        ELSE IF closest = None
                \/ cur.val < MerchantsDistance(h[closest].merchants).val
        THEN ScanClosest(i + 1, seen_offers_set, offs, h, offs[i])
        ELSE ScanClosest(i + 1, seen_offers_set, offs, h, closest)

GetClosestMerchantOffer(seen_offers_set, offs, h) ==
    ScanClosest(1, seen_offers_set, offs, h, None)

TopTwoOffersResult(offs, h) ==
    LET first == GetClosestMerchantOffer({}, offs, h)
        seen_id_set == IF first.offer # None THEN {h[first.offer].id} ELSE {}
        second == GetClosestMerchantOffer(seen_id_set, offs, h)
    IN  IF first.err # "none" THEN [err |-> first.err, answers |-> <<>>]
        ELSE IF second.err # "none" THEN [err |-> second.err, answers |-> <<>>]
        ELSE [err |-> "none",
              answers |-> (IF first.offer # None THEN <<first.offer>> ELSE <<>>)
                          \o (IF second.offer # None THEN <<second.offer>> ELSE <<>>)]

-----------------------------------------------------------------------------
(* Inputs. *)

\* str(n) for n >= 0
RECURSIVE Digits(_)
Digits(n) ==
    IF n < 10 THEN <<DigitChars[n + 1]>>
    ELSE Digits(n \div 10) \o <<DigitChars[(n % 10) + 1]>>

\* str.zfill
RECURSIVE ZFill(_, _)
ZFill(s, width) == IF Len(s) >= width THEN s ELSE ZFill(<<"0">> \o s, width)

\* "-".join([a, b, c])
Join3(a, b, c) == a \o <<"-">> \o b \o <<"-">> \o c

\* Checkin dates as __main__ joins them, year-month-day; __init__ keeps only
\* the valid ones.
CheckinPool ==
    {s \in {Join3(Digits(2023), Digits(4), Digits(30)),
            Join3(Digits(2022), Digits(4), Digits(30)),
            Join3(Digits(2023), Digits(12), Digits(28)),
            Join3(Digits(2023), Digits(2), Digits(30))} : IsValidDate(s) = "True"}

MainCheckin == Join3(Digits(2023), Digits(4), Digits(30))

\* valid_to dates as the payload writes them, YYYY-MM-DD.
ValidTo(year, month, day) ==
    Join3(Digits(year), ZFill(Digits(month), 2), ZFill(Digits(day), 2))

ValidToPool == {ValidTo(2023, 5, 5), ValidTo(2023, 5, 4), ValidTo(2023, 6, 1)}

DaysPool == {0, 5, 31, 32}

PayloadCategories == {1, 2}

MerchantDistances == {<<2>>, <<3, 1>>}

NamePool == {<<"R", "e", "s", "t", "a", "u", "r", "a", "n", "t">>,
             <<"r", "e", "t", "a", "i", "l">>}

NameLists == UNION {[1..k -> NamePool] : k \in 0..MaxNames}

\* One offer of the payload: a dict with id, category, valid_to and a list of
\* merchant dicts, each with id and distance.
Offer(r, category, valid_to, dists) ==
    [id |-> 100 + r,
     category |-> category,
     valid_to |-> valid_to,
     merchants |-> [isList |-> TRUE,
                    items |-> [k \in 1..Len(dists) |->
                                  [id |-> 10 * r + k, distance |-> dists[k]]]]]

\* A field of a date string: its text and the number it writes.
Field(n, width) == [txt |-> ZFill(Digits(n), width), val |-> n]

NoField == [txt |-> <<>>, val |-> 0]

MonthFields == {Field(m, w) : m \in {0, 1, 2, 4, 12, 13}, w \in {1, 2, 4}}

DayFields == {Field(d, w) : d \in {0, 1, 28, 29, 30, 31, 32}, w \in {1, 2, 4}}

YearFields == {Field(y, 4) : y \in {2023, 2024, 2100}}

DateIn(f1, f2, f3) ==
    [f1 |-> f1, f2 |-> f2, f3 |-> f3, str |-> Join3(f1.txt, f2.txt, f3.txt)]

RawDateIn(str) == [f1 |-> NoField, f2 |-> NoField, f3 |-> NoField, str |-> str]

\* Date strings: month-day-year and year-month-day, and strings that are no
\* three runs of digits.
DateInputs ==
    {DateIn(m, d, y) : m \in MonthFields, d \in DayFields, y \in YearFields}
    \cup {DateIn(y, m, d) : m \in MonthFields, d \in DayFields, y \in YearFields}
    \cup {RawDateIn(<<>>),
          RawDateIn(<<"a", "b", "c", "-", "1", "2", "-", "2", "0", "2", "3">>),
          RawDateIn(<<"1", "/", "2", "/", "2", "0", "2", "3">>),
          RawDateIn(<<"1", "2", "-", "2", "0", "2", "3">>),
          RawDateIn(<<"1", "-", "-", "2", "0", "2", "3">>)}

NoDateIn == RawDateIn(<<>>)

NoDateOut == [op |-> "none", days |-> 0, valid |-> "None", err |-> "none",
              date |-> NoDate]

\* The payloads: up to MaxOffers offers that differ in category and in their
\* merchants' distances.
Payloads ==
    UNION {
        {[r \in 1..n |-> Offer(r, cats[r], ValidTo(2023, 5, 5), dists[r])] :
            cats \in [1..n -> PayloadCategories],
            dists \in [1..n -> MerchantDistances]}
        : n \in 0..MaxOffers}

\* The payloads of offers that differ in valid_to.
DatedPayloads ==
    UNION {
        {[r \in 1..n |-> Offer(r, 1, valid_tos[r], <<1>>)] :
            valid_tos \in [1..n -> ValidToPool]}
        : n \in 1..MaxOffers}

\* __init__: self.offers is the payload's list, self.checkin_date the validated
\* checkin date.
Constructed(checkins, payloads) ==
    /\ checkin_date \in checkins
    /\ heap \in payloads
    /\ offers = [i \in 1..Len(heap) |-> i]
    /\ err = "none"
    /\ lastOp = [op |-> "init", names |-> <<>>, days |-> 0]
    /\ date_in = NoDateIn
    /\ date_out = NoDateOut

Init == Constructed({MainCheckin}, Payloads)

InitStay == Constructed(CheckinPool, DatedPayloads)

-----------------------------------------------------------------------------
(* The filters. *)

Called(op, names, days) ==
    /\ lastOp' = [op |-> op, names |-> names, days |-> days]
    /\ UNCHANGED <<checkin_date, date_in, date_out>>

CategoryFilter(desired_categories) ==
    \E res \in {CategoryFilterResult(desired_categories, offers, heap)} :
    /\ Len(res.answers) <= MaxOffers
    /\ offers' = IF res.err = "none" THEN res.answers ELSE offers
    /\ err' = res.err
    /\ UNCHANGED heap
    /\ Called("category_filter", desired_categories, 0)

DateFilter(no_extended_days) ==
    \E res \in {DateFilterResult(no_extended_days, offers, heap, checkin_date)} :
    /\ offers' = IF res.err = "none" THEN res.answers ELSE offers
    /\ err' = res.err
    /\ UNCHANGED heap
    /\ Called("date_filter", <<>>, no_extended_days)

MerchantFilter ==
    \E res \in {MerchantFilterFrom(1, offers, heap)} :
    /\ heap' = res.heap
    /\ err' = res.err
    /\ UNCHANGED offers
    /\ Called("merchant_filter", <<>>, 0)

ClosestMerchantPerCategoryFilter ==
    \E res \in {ClosestMerchantPerCategoryResult(offers, heap)} :
    /\ offers' = IF res.err = "none" THEN res.answers ELSE offers
    /\ err' = res.err
    /\ UNCHANGED heap
    /\ Called("closest_merchant_per_category_filter", <<>>, 0)

TopTwoOffersFilter ==
    \E res \in {TopTwoOffersResult(offers, heap)} :
    /\ offers' = IF res.err = "none" THEN res.answers ELSE offers
    /\ err' = res.err
    /\ UNCHANGED heap
    /\ Called("top_two_offers_filter", <<>>, 0)

Next ==
    \/ \E desired_categories \in NameLists : CategoryFilter(desired_categories)
    \/ \E no_extended_days \in DaysPool : DateFilter(no_extended_days)
    \/ MerchantFilter
    \/ ClosestMerchantPerCategoryFilter
    \/ TopTwoOffersFilter

Spec == Init /\ [][Next]_vars

-----------------------------------------------------------------------------
(* The date helpers, called on one date string. *)

InitDate ==
    /\ checkin_date = MainCheckin
    /\ heap = <<>>
    /\ offers = <<>>
    /\ err = "none"
    /\ lastOp = [op |-> "init", names |-> <<>>, days |-> 0]
    /\ date_in \in DateInputs
    /\ date_out = NoDateOut

CallIsValidDate ==
    /\ date_out.op = "none"
    /\ date_out' = [op |-> "is_valid_date", days |-> 0,
                    valid |-> IsValidDate(date_in.str),
                    err |-> "none", date |-> NoDate]
    /\ UNCHANGED <<checkin_date, offers, heap, err, lastOp, date_in>>

DateOutOf(stay, no_extended_days) ==
    [op |-> "get_last_stay_date", days |-> no_extended_days, valid |-> "None",
     err |-> stay.err, date |-> stay.date]

CallGetLastStayDate(no_extended_days) ==
    /\ date_out.op = "none"
    /\ date_out' = DateOutOf(GetLastStayDate(date_in.str, no_extended_days),
                             no_extended_days)
    /\ UNCHANGED <<checkin_date, offers, heap, err, lastOp, date_in>>

NextDate ==
    \/ CallIsValidDate
    \/ \E no_extended_days \in 0..(NoExtendedDaysLimit + 1) :
           CallGetLastStayDate(no_extended_days)

SpecDate == InitDate /\ [][NextDate]_vars

SpecStay == InitStay /\ [][Next]_vars

-----------------------------------------------------------------------------
(* Properties of the filters. *)

\* (year, month, day) a is after b, lexicographically.
LexAfter(a, b) ==
    \/ a[1] > b[1]
    \/ a[1] = b[1] /\ a[2] > b[2]
    \/ a[1] = b[1] /\ a[2] = b[2] /\ a[3] > b[3]

ValidToDate(r) == GetYearMonthDayFromStr(heap[r].valid_to).date

\* Every offer of the working set offs carries one merchant dict.
AllSingular(offs, h) == \A i \in 1..Len(offs) : ~h[offs[i]].merchants.isList

\* The distance of the one merchant of offer r.
DistanceIn(h, r) == h[r].merchants.items[1].distance

\* How often reference r occurs in the working set offs.
Count(r, offs) == Cardinality({i \in 1..Len(offs) : offs[i] = r})

C3_TopTwoAsClaimed ==
    [][lastOp'.op = "top_two_offers_filter" /\ err = "none"
       /\ AllSingular(offers, heap) =>
        /\ err' = "none"
        /\ Len(offers) = 0 => offers' = <<>>
        /\ Len(offers) = 1 => offers' = offers
        /\ Len(offers) >= 2 =>
            /\ Len(offers') = 2
            /\ heap[offers'[1]].id # heap[offers'[2]].id
            /\ \E i, j \in 1..Len(offers) :
                /\ i # j
                /\ offers'[1] = offers[i]
                /\ offers'[2] = offers[j]
                /\ DistanceIn(heap, offers[i]) <= DistanceIn(heap, offers[j])
                /\ \A k \in 1..Len(offers) \ {i, j} :
                       DistanceIn(heap, offers[j]) <= DistanceIn(heap, offers[k])
      ]_vars

\* C4: closest_merchant_per_category_filter on offers that carry one merchant
\* each (merchant_filter has run) raises nothing and leaves, for each category
\* of the working set, exactly one offer of it, no more distant than any offer
\* of that category in the working set, and no offer of any other category.
C4_ClosestPerCategory ==
    [][lastOp'.op = "closest_merchant_per_category_filter"
       /\ AllSingular(offers, heap) =>
        /\ err' = "none"
        /\ heap' = heap
        /\ \A c \in CATEGORY :
            LET prior == {i \in 1..Len(offers) : heap[offers[i]].category = c}
                kept == {k \in 1..Len(offers') : heap[offers'[k]].category = c}
            IN  IF prior = {} THEN kept = {}
                ELSE /\ Cardinality(kept) = 1
                     /\ \A k \in kept :
                         /\ \E i \in prior : offers[i] = offers'[k]
                         /\ \A i \in prior : DistanceIn(heap, offers'[k])
                                               <= DistanceIn(heap, offers[i])
      ]_vars

\* C4 witness: of two offers of one category the filter kept the second one,
\* which is the closer.
C4_Witness ==
    /\ lastOp.op = "closest_merchant_per_category_filter"
    /\ err = "none"
    /\ Len(heap) = 2
    /\ heap[1].category = heap[2].category
    /\ AllSingular(<<1, 2>>, heap)
    /\ DistanceIn(heap, 2) < DistanceIn(heap, 1)
    /\ offers = <<2>>

\* C5: when merchant_filter returns, the working set holds the same offers in
\* the same order, with their ids, categories and valid_to dates, and every
\* offer that carried a non-empty list of merchants carries one merchant of
\* that list, no more distant than any merchant of the list.
C5_MerchantFilterKeepsClosest ==
    [][lastOp'.op = "merchant_filter" /\ err' = "none" =>
        /\ offers' = offers
        /\ \A i \in 1..Len(offers) :
            LET before == heap[offers[i]]
                after == heap'[offers[i]]
            IN  /\ after.id = before.id
                /\ after.category = before.category
                /\ after.valid_to = before.valid_to
                /\ before.merchants.isList /\ before.merchants.items # <<>> =>
                    /\ ~after.merchants.isList
                    /\ \E k \in 1..Len(before.merchants.items) :
                           after.merchants.items[1] = before.merchants.items[k]
                    /\ \A k \in 1..Len(before.merchants.items) :
                           after.merchants.items[1].distance
                               <= before.merchants.items[k].distance
      ]_vars

\* C5 witness: merchant_filter returned on two offers, and one of them now
\* carries the merchant that was second in its list (merchant ids count the
\* list positions).
C5_Witness ==
    /\ lastOp.op = "merchant_filter"
    /\ err = "none"
    /\ Len(offers) = 2
    /\ offers[1] # offers[2]
    /\ \E i \in 1..2 :
        /\ ~heap[offers[i]].merchants.isList
        /\ heap[offers[i]].merchants.items[1].id = 10 * offers[i] + 2

\* Some desired category name has no offer in the working set.
SomeNameMissing(names, offs, h) ==
    \E k \in 1..Len(names) :
        \A i \in 1..Len(offs) : CategoryEnumName(h[offs[i]].category) # Upper(names[k])

\* C6 as claimed: when every desired category name has an offer in the working
\* set, category_filter(names) keeps every offer of a desired category once
\* (as often as the working set held it) and no other offer.
C6_CategoryFilterAsClaimed ==
    [][lastOp'.op = "category_filter"
       /\ ~SomeNameMissing(lastOp'.names, offers, heap) =>
        /\ err' = "none"
        /\ \A r \in 1..Len(heap) :
            Count(r, offers') =
                IF \E k \in 1..Len(lastOp'.names) :
                       CategoryEnumName(heap[r].category) = Upper(lastOp'.names[k])
                THEN Count(r, offers)
                ELSE 0
      ]_vars

\* C7: category_filter(names) raises an error and leaves the working set as
\* it was whenever some desired category name has no offer in the working set.
C7_CategoryFilterMissingNameFails ==
    [][lastOp'.op = "category_filter"
       /\ SomeNameMissing(lastOp'.names, offers, heap) =>
        /\ err' # "none"
        /\ offers' = offers
        /\ heap' = heap
      ]_vars

\* C7 witness: category_filter raised KeyError for its second name although
\* the working set holds an offer of its first name.
C7_Witness ==
    /\ lastOp.op = "category_filter"
    /\ err = "KeyError"
    /\ Len(lastOp.names) = 2
    /\ offers # <<>>
    /\ \E i \in 1..Len(offers) :
           CategoryEnumName(heap[offers[i]].category) = Upper(lastOp.names[1])
    /\ SomeNameMissing(<<lastOp.names[2]>>, offers, heap)

\* C8: closest_merchant_per_category_filter and top_two_offers_filter, called
\* while some offer of the working set still carries a list of merchants,
\* raise an error and leave the working set and its offers as they were.
C8_OrderingEnforced ==
    [][lastOp'.op \in {"closest_merchant_per_category_filter",
                       "top_two_offers_filter"}
       /\ ~AllSingular(offers, heap) =>
        /\ err' # "none"
        /\ offers' = offers
        /\ heap' = heap
      ]_vars

\* C8 witness: top_two_offers_filter raised on a working set of two offers,
\* both still carrying their lists of merchants.
C8_Witness ==
    /\ lastOp.op = "top_two_offers_filter"
    /\ err = "AssertionError"
    /\ Len(offers) = 2
    /\ \A i \in 1..2 : heap[offers[i]].merchants.isList

\* C9 as claimed: merchant_filter called again right after it returned
\* returns again and changes nothing.
C9_MerchantFilterIdempotentAsClaimed ==
    [][lastOp.op = "merchant_filter" /\ err = "none"
       /\ lastOp'.op = "merchant_filter" =>
        /\ err' = "none"
        /\ offers' = offers
        /\ heap' = heap
      ]_vars

-----------------------------------------------------------------------------
(* Properties of the date helpers. *)

\* The month lengths the specification states.
ClaimedDaysInMonth(year, month) ==
    IF month = 2 THEN (IF year % 4 = 0 THEN 29 ELSE 28)
    ELSE IF month \in {4, 6, 9, 11} THEN 30 ELSE 31

ClaimedValid(year, month, day) ==
    /\ 1 <= month /\ month <= 12
    /\ 1 <= day /\ day <= ClaimedDaysInMonth(year, month)

AsBool(b) == IF b THEN "True" ELSE "False"

\* The day after a date, and the day n days after it, under _get_no_days_in.
DayAfter(date) ==
    IF date[3] < GetNoDaysIn(date[1], date[2]) THEN <<date[1], date[2], date[3] + 1>>
    ELSE IF date[2] < 12 THEN <<date[1], date[2] + 1, 1>>
    ELSE <<date[1] + 1, 1, 1>>

RECURSIVE DaysAfter(_, _)
DaysAfter(date, n) == IF n = 0 THEN date ELSE DaysAfter(DayAfter(date), n - 1)

\* C2 as claimed: for a valid date and 0 <= n <= 31, _get_last_stay_date
\* returns the day n days after the date, a day of its month.
C2_LastStayDateAsClaimed ==
    date_out.op = "get_last_stay_date"
    /\ IsValidDate(date_in.str) = "True"
    /\ date_out.days <= NoExtendedDaysLimit =>
        /\ date_out.err = "none"
        /\ date_out.date = DaysAfter(GetYearMonthDayFromStr(date_in.str).date,
                                     date_out.days)
        /\ 1 <= date_out.date[3]
        /\ date_out.date[3] <= GetNoDaysIn(date_out.date[1], date_out.date[2])

\* The string is three non-empty runs of digits joined by "-".
ThreeFields(in) == in.f1.txt # <<>> /\ in.f2.txt # <<>> /\ in.f3.txt # <<>>

\* The string reads month-day-year: its third field is 4 characters long.
ReadsMonthDayYear(in) == ThreeFields(in) /\ Len(in.f3.txt) = 4

\* The string reads year-month-day only: its first field is 4 characters
\* long and its third is not.
ReadsYearMonthDay(in) ==
    ThreeFields(in) /\ Len(in.f1.txt) = 4 /\ Len(in.f3.txt) # 4

HasOtherChar(str) ==
    \E i \in 1..Len(str) : ~(IsDigit(str[i]) \/ str[i] = "-")

\* C10 as claimed: _is_valid_date is True exactly for 1 <= M <= 12 and
\* 1 <= D <= daysInMonth(Y, M) on every M-D-YYYY and YYYY-M-D string, and
\* False on the empty string and on a string with another character.
C10_IsValidDateAsClaimed ==
    date_out.op = "is_valid_date" =>
        /\ date_in.str = <<>> \/ HasOtherChar(date_in.str) => date_out.valid = "False"
        /\ ReadsMonthDayYear(date_in) =>
            date_out.valid = AsBool(ClaimedValid(date_in.f3.val, date_in.f1.val,
                                                 date_in.f2.val))
        /\ ReadsYearMonthDay(date_in) =>
            date_out.valid = AsBool(ClaimedValid(date_in.f1.val, date_in.f2.val,
                                                 date_in.f3.val))

\* C10, amended: as claimed, but a YYYY-M-D string only when its month field
\* is not 4 characters long.
C10_IsValidDate ==
    date_out.op = "is_valid_date" =>
        /\ date_in.str = <<>> \/ HasOtherChar(date_in.str) => date_out.valid = "False"
        /\ ReadsMonthDayYear(date_in) =>
            date_out.valid = AsBool(ClaimedValid(date_in.f3.val, date_in.f1.val,
                                                 date_in.f2.val))
        /\ ReadsYearMonthDay(date_in) /\ Len(date_in.f2.txt) # 4 =>
            date_out.valid = AsBool(ClaimedValid(date_in.f1.val, date_in.f2.val,
                                                 date_in.f3.val))

\* C10 witness: _is_valid_date returned True for the 29th of February of a
\* year divisible by 4, written year-month-day.
C10_Witness ==
    /\ date_out.op = "is_valid_date"
    /\ date_out.valid = "True"
    /\ ReadsYearMonthDay(date_in)
    /\ Len(date_in.f2.txt) # 4
    /\ date_in.f2.val = 2
    /\ date_in.f3.val = 29

====
